---- MODULE Spec2Model ----
(***************************************************************************)
(* Model of fli_encode.py: the byte-run (RLE) packet encoder, the chunk    *)
(* builders and the FlicFile assembler.  Byte buffers are sequences of     *)
(* integers 0..255; struct.pack is modelled with its range checks, so a    *)
(* value that does not fit its format raises struct.error.                 *)
(***************************************************************************)
EXTENDS Integers, Sequences, FiniteSets, TLC

VARIABLES
    data,           \* encoder input: the byte buffer handed to rle_encode / write_byte_run
    line_length,    \* encoder input: the line length handed to write_byte_run
    rle_res,        \* outcome of rle_encode(data, dest)
    run_res,        \* outcome of write_byte_run(data, line_length, dest)
    palette,        \* FlicFile._palette
    next_palette,   \* FlicFile._next_palette
    frames,         \* FlicFile._frames
    written,        \* the dest of FlicFile.write
    last,           \* the call that was made last and how it ended
    hist            \* history of the calls, kept for the properties only

vars == <<data, line_length, rle_res, run_res,
          palette, next_palette, frames, written, last, hist>>

encVars == <<data, line_length, rle_res, run_res>>
flicVars == <<palette, next_palette, frames, written, last, hist>>

(***************************************************************************)
(* Bounds of the model.                                                    *)
(***************************************************************************)
MaxLen == 4         \* buffers up to this length are enumerated exhaustively
MaxRun == 129       \* longest single run / literal stretch that is enumerated
MaxFrames == 2      \* add_frame calls that may succeed on one FlicFile

(***************************************************************************)
(* struct.pack                                                             *)
(***************************************************************************)
\* the exceptions the code can end with
NoError == "none"
StructError == "struct.error"
LineLengthMismatch == "ValueError()"
PaletteNotSet == "Palette not set"
TooManyColors == "Too many colors assigned"

\* little-endian unsigned encoding of x in n bytes
LE(x, n) == [i \in 1..n |-> (x \div (256 ^ (i - 1))) % 256]

\* format "b": a signed byte; anything else raises struct.error
fits_b(x) == x \in -128..127
pack_b(x) == <<x % 256>>

\* format "B": an unsigned byte
fits_B(x) == x \in 0..255
pack_B(x) == <<x>>

\* format "H": an unsigned 16 bit integer
fits_H(x) == x \in 0..65535
pack_H(x) == LE(x, 2)

\* format "I": an unsigned 32 bit integer
fits_I(x) == x >= 0 /\ x \div 65536 <= 65535
pack_I(x) == LE(x, 4)

\* n pad bytes ("x")
pad(n) == [i \in 1..n |-> 0]

(***************************************************************************)
(* rle_encode                                                              *)
(***************************************************************************)
\* the locals of rle_encode before the loop; err is the exception raised
RleStart ==
    [err |-> NoError, dest |-> <<>>, packet_count |-> 0,
     last_n |-> 0, different |-> TRUE]

\* data[lo:hi] of Python (0-based, hi exclusive)
Slice(s, lo, hi) == SubSeq(s, lo + 1, hi)

\* one iteration of the for loop, at index n (0-based) of data
RleIter(d, st, n) ==
    LET byte == d[n + 1]
        previous_byte == d[n]
    IN  IF st.err # NoError THEN st
        ELSE IF byte = previous_byte THEN
            IF st.different THEN
                IF st.last_n < n - 1 THEN
                    LET count == n - 1 - st.last_n
                    IN  IF ~fits_b(-count)
                        THEN [st EXCEPT !.err = StructError]
                        ELSE [st EXCEPT
                                !.dest = @ \o pack_b(-count) \o Slice(d, st.last_n, n - 1),
                                !.packet_count = @ + 1,
                                !.last_n = n - 1,
                                !.different = FALSE]
                ELSE [st EXCEPT !.last_n = n - 1, !.different = FALSE]
            ELSE st
        ELSE IF ~st.different THEN
            LET count == n - st.last_n
            IN  IF ~(fits_b(count) /\ fits_B(previous_byte))
                THEN [st EXCEPT !.err = StructError]
                ELSE [st EXCEPT
                        !.dest = @ \o pack_b(count) \o pack_B(previous_byte),
                        !.packet_count = @ + 1,
                        !.last_n = n,
                        !.different = TRUE]
        ELSE st

\* the iterations lo..hi of the for loop, in order, until an exception is
\* raised (split in halves so that the evaluation depth stays logarithmic in
\* the length of the buffer)
RECURSIVE RleLoop(_, _, _, _)
RleLoop(d, st, lo, hi) ==
    IF st.err # NoError \/ lo > hi THEN st
    ELSE IF lo = hi THEN RleIter(d, st, lo)
    ELSE LET mid == (lo + hi) \div 2
         IN  RleLoop(d, RleLoop(d, st, lo, mid), mid + 1, hi)

\* RleFlush with the length of the final repeat run off by one
RleFlushOffByOne(d, st) ==
    LET count == Len(d) - st.last_n
    IN  IF st.err # NoError THEN st
        ELSE IF st.different THEN
            IF ~fits_b(-count)
            THEN [st EXCEPT !.err = StructError]
            ELSE [st EXCEPT
                    !.dest = @ \o pack_b(-count) \o Slice(d, st.last_n, Len(d)),
                    !.packet_count = @ + 1]
        ELSE
            IF ~(fits_b(count - 1) /\ fits_B(d[Len(d)]))
            THEN [st EXCEPT !.err = StructError]
            ELSE [st EXCEPT
                    !.dest = @ \o pack_b(count - 1) \o pack_B(d[Len(d)]),
                    !.packet_count = @ + 1]

\* the flush of the open run after the loop
RleFlush(d, st) ==
    LET count == Len(d) - st.last_n
    IN  IF st.err # NoError THEN st
        ELSE IF st.different THEN
            IF ~fits_b(-count)
            THEN [st EXCEPT !.err = StructError]
            ELSE [st EXCEPT
                    !.dest = @ \o pack_b(-count) \o Slice(d, st.last_n, Len(d)),
                    !.packet_count = @ + 1]
        ELSE
            IF ~(fits_b(count) /\ fits_B(d[Len(d)]))
            THEN [st EXCEPT !.err = StructError]
            ELSE [st EXCEPT
                    !.dest = @ \o pack_b(count) \o pack_B(d[Len(d)]),
                    !.packet_count = @ + 1]

\* what the caller sees of the locals st at the end of rle_encode
RleReturn(st) ==
    [err |-> st.err, dest |-> st.dest, packet_count |-> st.packet_count]

\* rle_encode(data, dest) with an empty dest: the exception raised, the bytes
\* written to dest and the returned packet count
rle_encode(d) ==
    IF d = <<>>
    THEN [err |-> NoError, dest |-> <<>>, packet_count |-> 0]
    ELSE RleReturn(RleFlush(d, RleLoop(d, RleStart, 1, Len(d) - 1)))

(***************************************************************************)
(* write_chunk_data, write_byte_run                                        *)
(***************************************************************************)
COLOR_256 == 4
BYTE_RUN == 15
FLI_COPY == 16
FRAME_TYPE == 61946

\* write_chunk_data with a size field that leaves out the 6 bytes of the header
write_chunk_data_payload_size(type, d) ==
    IF ~(fits_I(Len(d)) /\ fits_H(type))
    THEN [err |-> StructError, out |-> <<>>]
    ELSE [err |-> NoError, out |-> pack_I(Len(d)) \o pack_H(type) \o d]

\* write_chunk_data(type, data, dest): err and the bytes written
write_chunk_data(type, d) ==
    IF ~(fits_I(Len(d) + 6) /\ fits_H(type))
    THEN [err |-> StructError, out |-> <<>>]
    ELSE [err |-> NoError, out |-> pack_I(Len(d) + 6) \o pack_H(type) \o d]

\* what write_byte_run writes to chunk for one line, given the outcome enc of
\* rle_encode on the line: the packet count byte and the packets
ByteRunRecord(enc) ==
    LET packet_count == IF enc.packet_count > 255 THEN 0 ELSE enc.packet_count
    IN  IF enc.err # NoError THEN [err |-> enc.err, out |-> <<>>]
        ELSE IF ~fits_b(packet_count) THEN [err |-> StructError, out |-> <<>>]
        ELSE [err |-> NoError, out |-> pack_b(packet_count) \o enc.dest]

\* the body of the for loop in write_byte_run for one line
ByteRunLine(line) == ByteRunRecord(rle_encode(line))

\* the for loop over the lines from offset on; chunk holds the bytes written
\* so far, and ByteRunNext continues after the line whose record is rec
RECURSIVE ByteRunLines(_, _, _, _)
RECURSIVE ByteRunNext(_, _, _, _, _)
ByteRunLines(d, ll, offset, chunk) ==
    IF offset >= Len(d) THEN [err |-> NoError, out |-> chunk]
    ELSE ByteRunNext(d, ll, offset, chunk, ByteRunLine(Slice(d, offset, offset + ll)))

ByteRunNext(d, ll, offset, chunk, rec) ==
    IF rec.err # NoError THEN rec
    ELSE ByteRunLines(d, ll, offset + ll, chunk \o rec.out)

\* the last line of write_byte_run: the chunk is wrapped unless the loop raised
ByteRunChunk(chunk) ==
    IF chunk.err # NoError THEN chunk
    ELSE write_chunk_data(BYTE_RUN, chunk.out)

\* write_byte_run(data, line_length, dest): err and the bytes written
write_byte_run(d, ll) ==
    IF Len(d) % ll # 0 THEN [err |-> LineLengthMismatch, out |-> <<>>]
    ELSE ByteRunChunk(ByteRunLines(d, ll, 0, <<>>))

(***************************************************************************)
(* Encoder inputs                                                          *)
(***************************************************************************)
ByteVals == {0, 7, 255}

Rep(v, n) == [i \in 1..n |-> v]
Alt(a, b, n) == [i \in 1..n |-> IF i % 2 = 1 THEN a ELSE b]
\* k times the three bytes a a b: two packets per three bytes
Dense(a, b, k) == [i \in 1..(3 * k) |-> IF i % 3 = 0 THEN b ELSE a]

ShortInputs == UNION {[1..n -> ByteVals] : n \in 0..MaxLen}
RunInputs == {Rep(v, n) : v \in {0, 255}, n \in 1..MaxRun}
LiteralInputs == {Alt(0, 255, n) : n \in (MaxRun - 3)..MaxRun}
MixedInputs ==
    {Rep(7, MaxRun - 2) \o Rep(9, MaxRun - 2),
     Rep(7, MaxRun - 1) \o <<1>>,
     Alt(1, 2, MaxRun) \o <<1>>,
     Alt(1, 2, MaxRun - 2) \o Rep(3, 5),
     <<4>> \o Rep(3, MaxRun - 2) \o Alt(1, 2, 6)}
DenseInputs ==
    {Dense(1, 2, k) : k \in {63, 64, 100, 127, 128}}
        \cup {Dense(1, 2, 127) \o <<3, 3>>, Dense(1, 2, 63) \o <<3, 3>>}

Inputs == ShortInputs \cup RunInputs \cup LiteralInputs \cup MixedInputs \cup DenseInputs

\* the line lengths tried on a buffer: short lines on the short buffers, the
\* whole buffer as one line, and two or three lines on the long ones
LineLengths(d) ==
    (IF Len(d) <= 2 * MaxLen THEN {1, 2, 3} ELSE {Len(d) + 1})
        \cup {n \in {Len(d), Len(d) \div 2, Len(d) \div 3} : n > 0}

NotCalled == [called |-> FALSE]


(***************************************************************************)
(* Color, write_palette_packet, write_palette                              *)
(***************************************************************************)
Color(r, g, b) == [r |-> r, g |-> g, b |-> b]

\* Color.__bytes__
ColorBytes(c) == pack_B(c.r) \o pack_B(c.g) \o pack_B(c.b)

RECURSIVE ColorsBytes(_, _, _)
ColorsBytes(colors, lo, hi) ==
    IF lo > hi THEN <<>>
    ELSE IF lo = hi THEN ColorBytes(colors[lo])
    ELSE LET mid == (lo + hi) \div 2
         IN  ColorsBytes(colors, lo, mid) \o ColorsBytes(colors, mid + 1, hi)

\* write_palette_packet(colors, skip, dest): err and the bytes written
write_palette_packet(colors, skip) ==
    IF Len(colors) > 256 THEN [err |-> TooManyColors, out |-> <<>>]
    ELSE IF ~fits_B(skip) THEN [err |-> StructError, out |-> <<>>]
    ELSE [err |-> NoError,
          out |-> pack_B(skip) \o pack_B(Len(colors) % 256)
                    \o ColorsBytes(colors, 1, Len(colors))]

\* the last line of write_palette: the packet count 1 and the packet are
\* wrapped unless write_palette_packet raised
PaletteChunk(packet) ==
    IF packet.err # NoError THEN packet
    ELSE write_chunk_data(COLOR_256, pack_H(1) \o packet.out)

\* write_palette(colors, dest): err and the bytes written
write_palette(colors) ==
    PaletteChunk(write_palette_packet(
        colors \o [i \in 1..(256 - Len(colors)) |-> Color(0, 0, 0)], 0))

(***************************************************************************)
(* SubchunkType, write_frame_type, write_header                            *)
(***************************************************************************)
\* the end of a "with subchunks.write_subchunk()" block that did not raise
write_subchunk(subchunks, buffer) ==
    IF buffer # <<>> THEN Append(subchunks, buffer) ELSE subchunks

RECURSIVE Concat(_)
Concat(bufs) ==
    IF bufs = <<>> THEN <<>> ELSE Head(bufs) \o Concat(Tail(bufs))

RECURSIVE SumLen(_)
SumLen(bufs) ==
    IF bufs = <<>> THEN 0 ELSE Len(Head(bufs)) + SumLen(Tail(bufs))

\* write_frame_type(subchunks, dest, delay=, width=, height=)
write_frame_type(subchunks, delay, width, height) ==
    IF ~(fits_H(Len(subchunks)) /\ fits_H(delay) /\ fits_H(width) /\ fits_H(height))
    THEN [err |-> StructError, out |-> <<>>]
    ELSE write_chunk_data(FRAME_TYPE,
            pack_H(Len(subchunks)) \o pack_H(delay) \o pack_H(0)
                \o pack_H(width) \o pack_H(height) \o Concat(subchunks))

\* write_header with a size field that leaves out the 128 bytes of the header
write_header_frames_size(frs, width, height, delay) ==
    LET size == SumLen(frs)
    IN  IF ~(fits_I(size) /\ fits_H(Len(frs)) /\ fits_H(width) /\ fits_H(height)
              /\ fits_I(delay))
        THEN [err |-> StructError, out |-> <<>>]
        ELSE [err |-> NoError,
              out |-> pack_I(size) \o pack_H(44818) \o pack_H(Len(frs))
                        \o pack_H(width) \o pack_H(height) \o pack_H(8) \o pack_H(0)
                        \o pack_I(delay) \o pad(2)
                        \o pack_I(0) \o pack_I(0) \o pack_I(0) \o pack_I(0)
                        \o pack_H(1) \o pack_H(1)
                        \o pad(2) \o pad(2) \o pad(2) \o pad(4) \o pad(2) \o pad(2)
                        \o pad(24) \o pad(4) \o pad(4) \o pad(40)
                        \o Concat(frs)]

\* write_header(frames, width, height, delay, dest)
write_header(frs, width, height, delay) ==
    LET size == SumLen(frs) + 128
    IN  IF ~(fits_I(size) /\ fits_H(Len(frs)) /\ fits_H(width) /\ fits_H(height)
              /\ fits_I(delay))
        THEN [err |-> StructError, out |-> <<>>]
        ELSE [err |-> NoError,
              out |-> pack_I(size) \o pack_H(44818) \o pack_H(Len(frs))
                        \o pack_H(width) \o pack_H(height) \o pack_H(8) \o pack_H(0)
                        \o pack_I(delay) \o pad(2)
                        \o pack_I(0) \o pack_I(0) \o pack_I(0) \o pack_I(0)
                        \o pack_H(1) \o pack_H(1)
                        \o pad(2) \o pad(2) \o pad(2) \o pad(4) \o pad(2) \o pad(2)
                        \o pad(24) \o pad(4) \o pad(4) \o pad(40)
                        \o Concat(frs)]

(***************************************************************************)
(* FlicFile                                                                *)
(***************************************************************************)
\* the width, height and delay the FlicFile is constructed with
Width == 2
Height == 2
Delay == 500

\* Python's None and a value that is not None
None == [isNone |-> TRUE, val |-> <<>>]
Some(v) == [isNone |-> FALSE, val |-> v]
\* truth value of an optional list: None and the empty list are false
Truthy(x) == ~x.isNone /\ x.val # <<>>

Pal(n) == [i \in 1..n |-> Color(i % 256, (2 * i) % 256, 255)]
Palettes == {Pal(0), Pal(1), Pal(256), Pal(257)}
\* pixel buffers of no line, of less than a line, of one line and of two lines
PixelBuffers == {<<>>, <<0>>, Alt(0, 1, Width), Alt(1, 0, 2 * Width)}
Images == {None} \cup {Some(px) : px \in PixelBuffers}

\* the promotion without the reset of the staged palette
PromoteKeepsStaged == [palette |-> next_palette.val, next_palette |-> next_palette]

\* the promotion of the staged palette in add_frame
Promote == [palette |-> next_palette.val, next_palette |-> None]

\* the fields as they are
Keep == [palette |-> palette, next_palette |-> next_palette]

\* the outcome of add_frame: the exception raised and the fields afterwards,
\* p being the palettes and fs the frame list
Outcome(e, p, fs) ==
    [err |-> e, palette |-> p.palette, next_palette |-> p.next_palette,
     frames |-> fs]

\* self._frames.append(frame.getvalue()), unless write_frame_type raised
AppendFrame(p, frame) ==
    IF frame.err # NoError THEN Outcome(frame.err, p, frames)
    ELSE Outcome(NoError, p, Append(frames, frame.out))

\* the end of the byte-run subchunk block: run is the outcome of write_byte_run
\* and subchunks holds the subchunks written before
AddByteRun(p, subchunks, run) ==
    IF run.err # NoError THEN Outcome(run.err, p, frames)
    ELSE AppendFrame(p, write_frame_type(write_subchunk(subchunks, run.out), 0, 0, 0))

\* add_frame from the palette subchunk block on: pal is the outcome of
\* write_palette (nothing written when no palette is emitted)
AddPixels(p, pal, image) ==
    IF pal.err # NoError THEN Outcome(pal.err, p, frames)
    ELSE AddByteRun(p, write_subchunk(<<>>, pal.out), write_byte_run(image.val, Width))

\* add_frame(image): the exception raised and the fields afterwards
add_frame(image) ==
    IF image.isNone THEN AppendFrame(Keep, write_frame_type(<<>>, 0, 0, 0))
    ELSE IF palette = <<>> \/ Truthy(next_palette) THEN
        IF ~Truthy(next_palette) THEN Outcome(PaletteNotSet, Keep, frames)
        ELSE AddPixels(Promote, write_palette(Promote.palette), image)
    ELSE AddPixels(Keep, [err |-> NoError, out |-> <<>>], image)

\* the bookkeeping of the history
HistInit ==
    [everSet |-> FALSE,     \* set_palette has been called
     pending |-> None,      \* the palette of the last set_palette call since
                            \* the last pixel frame that was added
     failed |-> FALSE,      \* an add_frame call has raised
     stagedEmpty |-> FALSE, \* set_palette has been called with no colors
     stagedBig |-> FALSE,   \* set_palette has been called with more than 256 colors
     okCount |-> 0]         \* add_frame calls that returned

SetPalette(colors) ==
    /\ ~written.called
    /\ next_palette' = Some(colors)
    /\ last' = [op |-> "set_palette", noop |-> FALSE, err |-> NoError]
    /\ hist' = [hist EXCEPT !.everSet = TRUE,
                            !.pending = Some(colors),
                            !.stagedEmpty = @ \/ Len(colors) = 0,
                            !.stagedBig = @ \/ Len(colors) > 256]
    /\ UNCHANGED <<palette, frames, written>>
    /\ UNCHANGED encVars

AddFrame(image) ==
    /\ ~written.called
    /\ Len(frames) < MaxFrames
    /\ \E r \in {add_frame(image)} :
           /\ palette' = r.palette
           /\ next_palette' = r.next_palette
           /\ frames' = r.frames
           /\ last' = [op |-> "add_frame", noop |-> image.isNone, err |-> r.err]
           /\ hist' = [hist EXCEPT
                         !.failed = @ \/ r.err # NoError,
                         !.okCount = IF r.err = NoError THEN @ + 1 ELSE @,
                         !.pending = IF r.err = NoError /\ ~image.isNone
                                     THEN None ELSE @]
    /\ UNCHANGED written
    /\ UNCHANGED encVars

Write ==
    /\ ~written.called
    /\ \E r \in {write_header(frames, Width, Height, Delay)} :
           written' = [called |-> TRUE, err |-> r.err, out |-> r.out]
    /\ last' = [op |-> "write", noop |-> FALSE, err |-> written'.err]
    /\ UNCHANGED <<palette, next_palette, frames, hist>>
    /\ UNCHANGED encVars

FlicInit ==
    /\ palette = <<>>
    /\ frames = <<>>
    /\ next_palette = None
    /\ written = NotCalled
    /\ last = [op |-> "__init__", noop |-> FALSE, err |-> NoError]
    /\ hist = HistInit

Init ==
    /\ FlicInit
    /\ data = <<>>
    /\ line_length = 1
    /\ rle_res = NotCalled
    /\ run_res = NotCalled

Next ==
    \/ \E colors \in Palettes : SetPalette(colors)
    \/ \E image \in Images : AddFrame(image)
    \/ Write

Spec == Init /\ [][Next]_vars

(***************************************************************************)
(* The encoder on its own: rle_encode and write_byte_run applied to an     *)
(* input buffer.                                                           *)
(***************************************************************************)
RleEncode ==
    /\ ~rle_res.called
    /\ \E r \in {rle_encode(data)} :
           rle_res' = [called |-> TRUE, err |-> r.err, dest |-> r.dest,
                       packet_count |-> r.packet_count]
    /\ UNCHANGED <<data, line_length, run_res>>
    /\ UNCHANGED flicVars

ByteRun ==
    /\ ~run_res.called
    /\ \E r \in {write_byte_run(data, line_length)} :
           run_res' = [called |-> TRUE, err |-> r.err, out |-> r.out]
    /\ UNCHANGED <<data, line_length, rle_res>>
    /\ UNCHANGED flicVars

InitEnc ==
    /\ FlicInit
    /\ data \in Inputs
    /\ line_length \in LineLengths(data)
    /\ rle_res = NotCalled
    /\ run_res = NotCalled

NextEnc ==
    \/ RleEncode
    \/ ByteRun

SpecEnc == InitEnc /\ [][NextEnc]_vars


(***************************************************************************)
(* Reading the output back: the packets of an RLE stream and the chunks    *)
(* of a frame, as a reader of the format sees them.                        *)
(***************************************************************************)
Signed(c) == IF c >= 128 THEN c - 256 ELSE c
U16(b, pos) == b[pos] + 256 * b[pos + 1]
U32(b, pos) == b[pos] + 256 * b[pos + 1] + 65536 * b[pos + 2] + 16777216 * b[pos + 3]

DecStart(pos) == [pos |-> pos, out |-> <<>>, counts |-> <<>>, bad |-> FALSE]

\* the reader is done: the stream is malformed, or at its end, or limit
\* bytes have been produced (no limit when limit < 0)
DecDone(b, st, limit) ==
    st.bad \/ st.pos > Len(b) \/ (limit >= 0 /\ Len(st.out) >= limit)

\* reads one packet: a negative count -k copies the next k bytes, a positive
\* count k repeats the next byte k times
DecStep(b, st, limit) ==
    IF DecDone(b, st, limit) THEN st
    ELSE LET k == Signed(b[st.pos])
         IN  IF k < 0 THEN
                 IF st.pos - k > Len(b) THEN [st EXCEPT !.bad = TRUE]
                 ELSE [st EXCEPT !.pos = @ + 1 - k,
                                 !.out = @ \o SubSeq(b, st.pos + 1, st.pos - k),
                                 !.counts = Append(@, k)]
             ELSE
                 IF st.pos + 1 > Len(b) THEN [st EXCEPT !.bad = TRUE]
                 ELSE [st EXCEPT !.pos = @ + 2,
                                 !.out = @ \o Rep(b[st.pos + 1], k),
                                 !.counts = Append(@, k)]

\* at most n packets
RECURSIVE DecSteps(_, _, _, _)
DecSteps(b, st, limit, n) ==
    IF DecDone(b, st, limit) \/ n = 0 THEN st
    ELSE IF n = 1 THEN DecStep(b, st, limit)
    ELSE DecSteps(b, DecSteps(b, st, limit, n \div 2), limit, n - (n \div 2))

\* the whole stream b
rle_decode(b) == DecSteps(b, DecStart(1), -1, Len(b))

Abs(k) == IF k < 0 THEN -k ELSE k

\* the lines of a byte-run chunk payload from pos on, checked against the
\* lines of d: the packets of each line decode to the line and its prefix
\* byte holds their number, or 0 when there are more than 255
RECURSIVE LinesOk(_, _, _, _, _)
LinesOk(b, pos, d, ll, offset) ==
    IF offset >= Len(d) THEN pos = Len(b) + 1
    ELSE /\ pos <= Len(b)
         /\ LET dec == DecSteps(b, DecStart(pos + 1), ll, ll)
                n == Len(dec.counts)
            IN  /\ ~dec.bad
                /\ dec.out = Slice(d, offset, offset + ll)
                /\ b[pos] = (IF n > 255 THEN 0 ELSE n)
                /\ LinesOk(b, dec.pos, d, ll, offset + ll)

\* the chunks that start at pos of b
RECURSIVE ParseChunks(_, _)
ParseChunks(b, pos) ==
    IF pos + 5 > Len(b) THEN <<>>
    ELSE LET size == U32(b, pos)
         IN  IF size < 6 THEN <<>>
             ELSE <<SubSeq(b, pos, pos + size - 1)>> \o ParseChunks(b, pos + size)

ChunkType(c) == U16(c, 5)
\* the subchunks of a frame chunk, after its 6 + 10 header bytes
Subchunks(frame) == ParseChunks(frame, 17)
SubchunkTypes(frame) == [i \in 1..Len(Subchunks(frame)) |-> ChunkType(Subchunks(frame)[i])]
HasSubchunk(frame, type) == \E i \in 1..Len(Subchunks(frame)) : SubchunkTypes(frame)[i] = type

\* no 128 consecutive bytes of the line are all equal or all different from
\* their neighbour
NoLongRun(line) ==
    \A i \in 1..(Len(line) - 127) :
        /\ \E j \in i..(i + 126) : line[j] # line[j + 1]
        /\ \E j \in i..(i + 126) : line[j] = line[j + 1]

IsRun(d) == Len(d) >= 1 /\ \A i \in 1..Len(d) : d[i] = d[1]

(***************************************************************************)
(* Properties                                                              *)
(***************************************************************************)

\* C1: for every buffer rle_encode completes, its packets decode to the
\* buffer, and the returned packet count is the number of packets written.
C1_RoundTrip ==
    rle_res.called =>
        /\ rle_res.err = NoError
        /\ LET dec == rle_decode(rle_res.dest)
           IN  /\ ~dec.bad
               /\ dec.out = data
               /\ Len(dec.counts) = rle_res.packet_count

\* C2 as stated: a buffer of L copies of v, 1 <= L <= 127, is encoded as the
\* one repeat packet +L, v and 1 is returned.
C2_Original ==
    (rle_res.called /\ IsRun(data) /\ Len(data) <= 127) =>
        /\ rle_res.err = NoError
        /\ rle_res.packet_count = 1
        /\ rle_res.dest = <<Len(data), data[1]>>

\* C2 as amended: a buffer of L copies of v is encoded as one packet and 1 is
\* returned; for 2 <= L <= 127 the packet is the repeat packet +L, v, and for
\* L = 1 it is the literal packet -1, v.
C2_SingleRun ==
    (rle_res.called /\ IsRun(data) /\ Len(data) <= 127) =>
        /\ rle_res.err = NoError
        /\ rle_res.packet_count = 1
        /\ rle_res.dest = (IF Len(data) = 1 THEN <<255, data[1]>>
                           ELSE <<Len(data), data[1]>>)

C2_Witness ==
    rle_res.called /\ IsRun(data) /\ Len(data) = 127 /\ data[1] = 255

\* C3: add_frame with pixel data and no active palette raises "Palette not
\* set" exactly when no palette has been staged by set_palette (palettes of 0
\* to 256 colors), and then appends no frame.
C3_PaletteNotSetIffNotStaged ==
    [][(last'.op = "add_frame" /\ ~last'.noop /\ palette = <<>> /\ ~hist.stagedBig) =>
            /\ (last'.err = PaletteNotSet) <=> ~hist.everSet
            /\ (last'.err = PaletteNotSet) => frames' = frames]_vars

\* C4: as long as every add_frame call succeeded and every palette staged had
\* 1 to 256 colors, a frame has a palette subchunk iff it is the first pixel
\* frame after a set_palette call; it then carries the palette staged last,
\* before the byte-run subchunk; other pixel frames carry the byte-run
\* subchunk only, and no-op frames carry nothing.
C4_PaletteOnlyWhenStaged ==
    [][(last'.op = "add_frame" /\ last'.err = NoError
            /\ ~hist'.failed /\ ~hist.stagedEmpty /\ ~hist.stagedBig) =>
        LET frame == frames'[Len(frames')]
        IN  /\ Len(frames') = Len(frames) + 1
            /\ IF last'.noop THEN SubchunkTypes(frame) = <<>>
               ELSE IF hist.pending.isNone THEN SubchunkTypes(frame) = <<BYTE_RUN>>
               ELSE /\ SubchunkTypes(frame) = <<COLOR_256, BYTE_RUN>>
                    /\ Subchunks(frame)[1] = write_palette(hist.pending.val).out]_vars

C4_Witness ==
    /\ ~hist.failed /\ ~hist.stagedEmpty /\ ~hist.stagedBig
    /\ Len(frames) = 2
    /\ \/ SubchunkTypes(frames[1]) = <<COLOR_256, BYTE_RUN>>
          /\ SubchunkTypes(frames[2]) = <<BYTE_RUN>>
       \/ SubchunkTypes(frames[1]) = <<>>
          /\ SubchunkTypes(frames[2]) = <<COLOR_256, BYTE_RUN>>
          /\ hist.pending.isNone

\* C5: only an add_frame call that returns changes the frame list, by
\* appending one chunk; write emits 128 header bytes whose size field is 128
\* plus the lengths of the frames and whose frame_count is the number of
\* add_frame calls that returned, followed by the frames in order.
C5_HeaderMatchesFrames ==
    [][/\ last'.op = "set_palette" => frames' = frames
       /\ (last'.op = "add_frame" /\ last'.err # NoError) => frames' = frames
       /\ (last'.op = "add_frame" /\ last'.err = NoError) =>
             /\ Len(frames') = Len(frames) + 1
             /\ SubSeq(frames', 1, Len(frames)) = frames
       /\ last'.op = "write" =>
             /\ frames' = frames
             /\ written'.err = NoError
             /\ Len(written'.out) = 128 + SumLen(frames)
             /\ U32(written'.out, 1) = 128 + SumLen(frames)
             /\ U16(written'.out, 7) = hist.okCount
             /\ SubSeq(written'.out, 129, Len(written'.out)) = Concat(frames)]_vars

C5_Witness ==
    written.called /\ hist.failed /\ hist.okCount = 2 /\ Len(written.out) > 128 + 32

\* C6: every packet rle_encode writes has a count of absolute value 1..127,
\* and the encoder does not fail, whatever the length of the runs.
C6_CountsCapped ==
    rle_res.called =>
        /\ rle_res.err = NoError
        /\ LET dec == rle_decode(rle_res.dest)
           IN  /\ ~dec.bad
               /\ \A i \in 1..Len(dec.counts) : Abs(dec.counts[i]) \in 1..127

\* C7: on a buffer of whole lines without a run longer than 127,
\* write_byte_run completes; each line is prefixed by its packet count, or by
\* 0 when the count exceeds 255.
C7_ByteRunCompletes ==
    (/\ run_res.called
     /\ Len(data) % line_length = 0
     /\ \A k \in 0..((Len(data) \div line_length) - 1) :
            NoLongRun(Slice(data, k * line_length, (k + 1) * line_length))) =>
        /\ run_res.err = NoError
        /\ U32(run_res.out, 1) = Len(run_res.out)
        /\ ChunkType(run_res.out) = BYTE_RUN
        /\ LinesOk(run_res.out, 7, data, line_length, 0)

\* C8: add_frame(None) succeeds in every state and appends one FRAME_TYPE
\* chunk of 16 bytes with subchunk_count 0; the palettes and the earlier
\* frames stay as they are.
C8_NoopFrame ==
    [][(last'.op = "add_frame" /\ last'.noop) =>
        /\ last'.err = NoError
        /\ Len(frames') = Len(frames) + 1
        /\ SubSeq(frames', 1, Len(frames)) = frames
        /\ LET frame == frames'[Len(frames')]
           IN  /\ Len(frame) = 16
               /\ U32(frame, 1) = 16
               /\ ChunkType(frame) = FRAME_TYPE
               /\ U16(frame, 7) = 0
        /\ palette' = palette
        /\ next_palette' = next_palette]_vars

C8_Witness ==
    /\ last.op = "add_frame" /\ last.noop
    /\ ~hist.everSet /\ palette = <<>>
    /\ Len(frames) = 2

\* C9: an add_frame call that raises leaves the active palette, the staged
\* palette and the frame list as they were.
C9_FailureLeavesState ==
    [][(last'.op = "add_frame" /\ last'.err # NoError) =>
        /\ palette' = palette
        /\ next_palette' = next_palette
        /\ frames' = frames]_vars

\* C10: the first frame with a byte-run subchunk has a palette subchunk
\* before it, and the active palette has been emitted in some frame (frames
\* are only ever appended, so this covers every palette that became active).
C10_PixelsHavePalette ==
    /\ \A i \in 1..Len(frames) :
          (/\ HasSubchunk(frames[i], BYTE_RUN)
           /\ \A j \in 1..(i - 1) : ~HasSubchunk(frames[j], BYTE_RUN))
            => SubchunkTypes(frames[i]) = <<COLOR_256, BYTE_RUN>>
    /\ palette # <<>> =>
          /\ write_palette(palette).err = NoError
          /\ \E i \in 1..Len(frames) :
                \E k \in 1..Len(Subchunks(frames[i])) :
                    Subchunks(frames[i])[k] = write_palette(palette).out

====
